---- MODULE Spec2Model ----
(***************************************************************************)
(* Ledger state machine of the tokenized_portfolio program                 *)
(* (src/tokenized_portfolio/src/lib.rs).                                   *)
(*                                                                         *)
(* One action per instruction handler.  A handler works on the            *)
(* deserialized copy of its accounts; the copy is written back only when   *)
(* the handler returns Ok, and a failed or panicking instruction leaves    *)
(* the stored accounts as they were (Commit).  u64 arithmetic is kept at a *)
(* scaled width of WordBits bits; an overflowing +, - or * either panics   *)
(* (build with overflow checks) or wraps (build without), and the build is *)
(* the state variable overflow_checks, fixed from the initial state on.    *)
(***************************************************************************)
EXTENDS Integers, Sequences, FiniteSets, TLC

VARIABLES
    portfolio,        \* the stored Portfolio account
    user_stake,       \* the stored UserStake account
    clock,            \* Clock::get()?.unix_timestamp
    overflow_checks,  \* whether the build panics on u64 overflow
    last,             \* the last instruction: name, arguments, result, event, CPI
    rebalanced,       \* a rebalance has run since initialize_portfolio
    steps             \* instructions processed so far

vars == <<portfolio, user_stake, clock, overflow_checks, last, rebalanced, steps>>

(* ------------------------------ bounds -------------------------------- *)
WordBits == 16
MaxSteps == 3
MaxAssets == 2
MaxHistory == 2
MaxClock == 2

(* ------------------------- program constants -------------------------- *)
Modulus == 2 ^ WordBits
U64_MAX == Modulus - 1
INITIAL_SHARES == 1000000
ORACLE_PRICE == 100
PERFORMANCE_FEE_PLACEHOLDER == 0
BONUS_PERCENT == 5
PERCENT_BASE == 100
REWARD_SCALE == 1000000

(* ------------------------------ inputs -------------------------------- *)
OWNER == "owner"
Identities == {OWNER, "stranger"}
Symbols == {"SOL", "USDC"}
AssetAmounts == {1, 2}
AssetValues == {100, 101}
MoveAmounts == {1, 2, 3}
NewValues == {0, 100, U64_MAX}
SnapshotValues == {600, 700}
StakeAmounts == {1, U64_MAX}
RewardAmounts == {1, U64_MAX}
BonusThresholds == {100, 200}
StubAmounts == {1}
RatioVectors ==
    { <<>>,
      << <<"SOL", 100>> >>,
      << <<"SOL", 50>>, <<"USDC", 50>> >>,
      << <<"USDC", 150>>, <<"USDC", 30>> >> }

(* --------------------------- u64 arithmetic --------------------------- *)
AddOverflows(a, b) == a + b > U64_MAX
SubOverflows(a, b) == a < b
MulOverflows(a, b) == a * b > U64_MAX
WrapAdd(a, b) == (a + b) % Modulus
WrapSub(a, b) == (a - b) % Modulus
WrapMul(a, b) == (a * b) % Modulus
(* `x as u64` of an i64 *)
CastU64(x) == x % Modulus

(* ------------------------------ records ------------------------------- *)
Asset(symbol, amount, value) ==
    [symbol |-> symbol, amount |-> amount, value |-> value]

AssetUpdated(owner, asset_symbol, old_value, new_value) ==
    [name |-> "AssetUpdated", owner |-> owner, asset_symbol |-> asset_symbol,
     old_value |-> old_value, new_value |-> new_value]

FeesApplied(owner, management_fee, performance_fee) ==
    [name |-> "FeesApplied", owner |-> owner,
     management_fee |-> management_fee, performance_fee |-> performance_fee]

(* What a handler leaves behind: its result, the in-memory accounts at the *)
(* point of return, the event it emitted and whether the token program     *)
(* was invoked ("none", "ok", "failed").                                   *)
Outcome(result, p, s, event, cpi) ==
    [result |-> result, portfolio |-> p, user_stake |-> s,
     event |-> event, cpi |-> cpi]

(* Position finding the last asset that holds the symbol. *)
PositionOfLatest(assets, symbol) ==
    IF \E i \in 1..Len(assets) : assets[i].symbol = symbol
    THEN CHOOSE i \in 1..Len(assets) :
            /\ assets[i].symbol = symbol
            /\ \A j \in (i + 1)..Len(assets) : assets[j].symbol # symbol
    ELSE 0

(* .iter().position(|a| a.symbol == symbol) / .iter_mut().find(..):        *)
(* the first index holding the symbol, 0 when there is none.               *)
Position(assets, symbol) ==
    IF \E i \in 1..Len(assets) : assets[i].symbol = symbol
    THEN CHOOSE i \in 1..Len(assets) :
            /\ assets[i].symbol = symbol
            /\ \A j \in 1..(i - 1) : assets[j].symbol # symbol
    ELSE 0

(* token::transfer(cpi_ctx, amount)?                                       *)
TokenTransfer(transfer_ok) == IF transfer_ok THEN "ok" ELSE "failed"

(* --------------------------- the handlers ----------------------------- *)
(* initialize_portfolio leaving total_shares at the zero of a fresh account. *)
initialize_portfolio_without_shares(owner, now) ==
    [owner |-> owner,
     total_value |-> 0,
     total_shares |-> 0,
     assets |-> <<>>,
     historical_values |-> <<>>,
     last_update_timestamp |-> now,
     min_value_threshold |-> 0,
     max_value_threshold |-> U64_MAX,
     management_fee |-> 0,
     performance_fee |-> 0]

initialize_portfolio(owner, now) ==
    [owner |-> owner,
     total_value |-> 0,
     total_shares |-> INITIAL_SHARES,
     assets |-> <<>>,
     historical_values |-> <<>>,
     last_update_timestamp |-> now,
     min_value_threshold |-> 0,
     max_value_threshold |-> U64_MAX,
     management_fee |-> 0,
     performance_fee |-> 0]

add_asset(p, s, asset_symbol, asset_amount, asset_value) ==
    IF overflow_checks /\ AddOverflows(p.total_value, asset_value)
    THEN Outcome("Panic", p, s, <<>>, "none")
    ELSE Outcome("Ok",
                 [p EXCEPT !.total_value = WrapAdd(@, asset_value),
                           !.assets = Append(@, Asset(asset_symbol, asset_amount, asset_value))],
                 s,
                 <<AssetUpdated(p.owner, asset_symbol, 0, asset_value)>>,
                 "none")

(* transfer_asset charging total_value as withdraw_asset does. *)
transfer_asset_charging_total(p, s, asset_symbol, amount, transfer_ok) ==
    LET i == Position(p.assets, asset_symbol)
        p1 == [p EXCEPT !.assets[i].amount = @ - amount,
                        !.total_value = WrapSub(@, p.assets[i].value)]
    IN  IF i = 0 THEN Outcome("AssetNotFound", p, s, <<>>, "none")
        ELSE IF p.assets[i].amount < amount
        THEN Outcome("InsufficientBalance", p, s, <<>>, "none")
        ELSE IF TokenTransfer(transfer_ok) = "failed"
        THEN Outcome("TransferFailed", p1, s, <<>>, "failed")
        ELSE Outcome("Ok", p1, s, <<>>, "ok")

transfer_asset(p, s, asset_symbol, amount, transfer_ok) ==
    LET i == Position(p.assets, asset_symbol)
        p1 == [p EXCEPT !.assets[i].amount = @ - amount]
    IN  IF i = 0 THEN Outcome("AssetNotFound", p, s, <<>>, "none")
        ELSE IF p.assets[i].amount < amount
        THEN Outcome("InsufficientBalance", p, s, <<>>, "none")
        ELSE IF TokenTransfer(transfer_ok) = "failed"
        THEN Outcome("TransferFailed", p1, s, <<>>, "failed")
        ELSE Outcome("Ok", p1, s, <<>>, "ok")

(* update_asset_value adding new_value to total_value without taking the   *)
(* old value out.                                                          *)
update_asset_value_accumulating(p, s, asset_symbol, new_value) ==
    LET asset_index == Position(p.assets, asset_symbol)
        old_value == p.assets[asset_index].value
    IN  IF asset_index = 0 THEN Outcome("AssetNotFound", p, s, <<>>, "none")
        ELSE IF overflow_checks /\ AddOverflows(p.total_value, new_value)
        THEN Outcome("Panic", p, s, <<>>, "none")
        ELSE Outcome("Ok",
                     [p EXCEPT !.assets[asset_index].value = new_value,
                               !.total_value = WrapAdd(@, new_value)],
                     s,
                     <<AssetUpdated(p.owner, asset_symbol, old_value, new_value)>>,
                     "none")

update_asset_value(p, s, asset_symbol, new_value) ==
    LET asset_index == Position(p.assets, asset_symbol)
        old_value == p.assets[asset_index].value
        new_total_value == WrapAdd(WrapSub(p.total_value, old_value), new_value)
        overflow ==
            \/ SubOverflows(p.total_value, old_value)
            \/ AddOverflows(WrapSub(p.total_value, old_value), new_value)
    IN  IF asset_index = 0 THEN Outcome("AssetNotFound", p, s, <<>>, "none")
        ELSE IF overflow_checks /\ overflow
        THEN Outcome("Panic", p, s, <<>>, "none")
        ELSE Outcome("Ok",
                     [p EXCEPT !.assets[asset_index].value = new_value,
                               !.total_value = new_total_value],
                     s,
                     <<AssetUpdated(p.owner, asset_symbol, old_value, new_value)>>,
                     "none")

(* record_performance keeping only the newest snapshot. *)
record_performance_replacing(p, s, current_value, now) ==
    Outcome("Ok",
            [p EXCEPT !.historical_values = <<current_value>>,
                      !.last_update_timestamp = now],
            s, <<>>, "none")

record_performance(p, s, current_value, now) ==
    Outcome("Ok",
            [p EXCEPT !.historical_values = Append(@, current_value),
                      !.last_update_timestamp = now],
            s, <<>>, "none")

(* The loop of rebalance_portfolio with the quotient rounded up. *)
RECURSIVE RebalanceLoopRoundingUp(_, _, _, _)
RebalanceLoopRoundingUp(assets, target_ratios, k, total_value) ==
    IF k > Len(target_ratios) THEN [assets |-> assets, panicked |-> FALSE]
    ELSE LET symbol == target_ratios[k][1]
             target_ratio == target_ratios[k][2]
             i == Position(assets, symbol)
             target_value ==
                 (WrapMul(total_value, target_ratio) + PERCENT_BASE - 1) \div PERCENT_BASE
         IN  IF i = 0
             THEN RebalanceLoopRoundingUp(assets, target_ratios, k + 1, total_value)
             ELSE IF overflow_checks /\ MulOverflows(total_value, target_ratio)
             THEN [assets |-> assets, panicked |-> TRUE]
             ELSE RebalanceLoopRoundingUp([assets EXCEPT ![i].value = target_value],
                                          target_ratios, k + 1, total_value)

(* for (symbol, target_ratio) in target_ratios.iter(): the assets after    *)
(* the pairs k..Len(target_ratios).  A product that overflows stops the    *)
(* loop with a panic in a build with overflow checks and wraps otherwise.  *)
RECURSIVE RebalanceLoop(_, _, _, _)
RebalanceLoop(assets, target_ratios, k, total_value) ==
    IF k > Len(target_ratios) THEN [assets |-> assets, panicked |-> FALSE]
    ELSE LET symbol == target_ratios[k][1]
             target_ratio == target_ratios[k][2]
             i == Position(assets, symbol)
             target_value == WrapMul(total_value, target_ratio) \div PERCENT_BASE
         IN  IF i = 0
             THEN RebalanceLoop(assets, target_ratios, k + 1, total_value)
             ELSE IF overflow_checks /\ MulOverflows(total_value, target_ratio)
             THEN [assets |-> assets, panicked |-> TRUE]
             ELSE RebalanceLoop([assets EXCEPT ![i].value = target_value],
                                target_ratios, k + 1, total_value)

rebalance_portfolio(p, s, target_ratios) ==
    LET total_value == p.total_value
        done == RebalanceLoop(p.assets, target_ratios, 1, total_value)
    IN  IF done.panicked
        THEN Outcome("Panic", [p EXCEPT !.assets = done.assets], s, <<>>, "none")
        ELSE Outcome("Ok", [p EXCEPT !.assets = done.assets], s, <<>>, "none")

withdraw_asset(p, s, asset_symbol, amount, transfer_ok) ==
    LET i == Position(p.assets, asset_symbol)
        p1 == [p EXCEPT !.assets[i].amount = @ - amount]
        product == WrapMul(amount, p.assets[i].value)
        overflow ==
            \/ MulOverflows(amount, p.assets[i].value)
            \/ SubOverflows(p.total_value, product)
        p2 == [p1 EXCEPT !.total_value = WrapSub(@, product)]
    IN  IF i = 0 THEN Outcome("AssetNotFound", p, s, <<>>, "none")
        ELSE IF p.assets[i].amount < amount
        THEN Outcome("InsufficientBalance", p, s, <<>>, "none")
        ELSE IF overflow_checks /\ overflow
        THEN Outcome("Panic", p1, s, <<>>, "none")
        ELSE IF TokenTransfer(transfer_ok) = "failed"
        THEN Outcome("TransferFailed", p2, s, <<>>, "failed")
        ELSE Outcome("Ok", p2, s, <<>>, "ok")

(* check_risk raising min_value_threshold to the total_value it accepted. *)
check_risk_ratcheting(p, s) ==
    IF p.total_value < p.min_value_threshold
    THEN Outcome("UnderMinValue", p, s, <<>>, "none")
    ELSE Outcome("Ok", [p EXCEPT !.min_value_threshold = p.total_value],
                 s, <<>>, "none")

(* check_risk taking a total_value equal to min_value_threshold as under it. *)
check_risk_inclusive(p, s) ==
    IF p.total_value <= p.min_value_threshold
    THEN Outcome("UnderMinValue", p, s, <<>>, "none")
    ELSE Outcome("Ok", p, s, <<>>, "none")

check_risk(p, s) ==
    IF p.total_value < p.min_value_threshold
    THEN Outcome("UnderMinValue", p, s, <<>>, "none")
    ELSE Outcome("Ok", p, s, <<>>, "none")

(* msg!("Portfolio exceeds maximum threshold. Rebalancing.") *)
check_risk_advisory(p) ==
    /\ ~(p.total_value < p.min_value_threshold)
    /\ p.total_value > p.max_value_threshold

get_oracle_price == ORACLE_PRICE

calculate_performance_fee(p) == PERFORMANCE_FEE_PLACEHOLDER

update_asset_value_with_oracle(p, s, asset_symbol) ==
    LET asset_index == Position(p.assets, asset_symbol)
        old_value == p.assets[asset_index].value
        oracle_price == get_oracle_price
        new_total_value == WrapAdd(WrapSub(p.total_value, old_value), oracle_price)
        overflow ==
            \/ SubOverflows(p.total_value, old_value)
            \/ AddOverflows(WrapSub(p.total_value, old_value), oracle_price)
    IN  IF asset_index = 0 THEN Outcome("AssetNotFound", p, s, <<>>, "none")
        ELSE IF overflow_checks /\ overflow
        THEN Outcome("Panic", p, s, <<>>, "none")
        ELSE Outcome("Ok",
                     [p EXCEPT !.assets[asset_index].value = oracle_price,
                               !.total_value = new_total_value],
                     s,
                     <<AssetUpdated(p.owner, asset_symbol, old_value, oracle_price)>>,
                     "none")

apply_fees(p, s) ==
    LET management_fee == WrapMul(p.total_value, p.management_fee) \div PERCENT_BASE
        performance_fee == calculate_performance_fee(p)
        overflow ==
            \/ MulOverflows(p.total_value, p.management_fee)
            \/ AddOverflows(management_fee, performance_fee)
            \/ SubOverflows(p.total_value, WrapAdd(management_fee, performance_fee))
    IN  IF overflow_checks /\ overflow
        THEN Outcome("Panic", p, s, <<>>, "none")
        ELSE Outcome("Ok",
                     [p EXCEPT !.total_value =
                         WrapSub(@, WrapAdd(management_fee, performance_fee))],
                     s,
                     <<FeesApplied(p.owner, management_fee, performance_fee)>>,
                     "none")

(* stake_tokens stamping the stake one second ahead of the clock. *)
stake_tokens_stamping_ahead(p, s, amount, now, transfer_ok) ==
    LET s1 == [s EXCEPT !.amount = WrapAdd(@, amount),
                        !.last_reward_claim_timestamp = now + 1]
    IN  IF overflow_checks /\ AddOverflows(s.amount, amount)
        THEN Outcome("Panic", p, s, <<>>, "none")
        ELSE IF TokenTransfer(transfer_ok) = "failed"
        THEN Outcome("TransferFailed", p, s1, <<>>, "failed")
        ELSE Outcome("Ok", p, s1, <<>>, "ok")

stake_tokens(p, s, amount, now, transfer_ok) ==
    LET s1 == [s EXCEPT !.amount = WrapAdd(@, amount),
                        !.last_reward_claim_timestamp = now]
    IN  IF overflow_checks /\ AddOverflows(s.amount, amount)
        THEN Outcome("Panic", p, s, <<>>, "none")
        ELSE IF TokenTransfer(transfer_ok) = "failed"
        THEN Outcome("TransferFailed", p, s1, <<>>, "failed")
        ELSE Outcome("Ok", p, s1, <<>>, "ok")

provide_liquidity(p, s, asset_symbol, amount, transfer_ok) ==
    LET i == Position(p.assets, asset_symbol)
    IN  IF i = 0 THEN Outcome("AssetNotFound", p, s, <<>>, "none")
        ELSE IF p.assets[i].amount < amount
        THEN Outcome("InsufficientBalance", p, s, <<>>, "none")
        ELSE IF TokenTransfer(transfer_ok) = "failed"
        THEN Outcome("TransferFailed", p, s, <<>>, "failed")
        ELSE Outcome("Ok", p, s, <<>>, "ok")

apply_dynamic_fees(p, s, performance_bonus_threshold) ==
    LET base_management_fee ==
            WrapMul(p.total_value, p.management_fee) \div PERCENT_BASE
        base_performance_fee == calculate_performance_fee(p)
        bonus_applies == p.total_value > performance_bonus_threshold
        performance_bonus ==
            IF bonus_applies
            THEN WrapMul(p.total_value, BONUS_PERCENT) \div PERCENT_BASE
            ELSE 0
        total_performance_fee == WrapAdd(base_performance_fee, performance_bonus)
        deduction == WrapAdd(base_management_fee, total_performance_fee)
        overflow ==
            \/ MulOverflows(p.total_value, p.management_fee)
            \/ bonus_applies /\ MulOverflows(p.total_value, BONUS_PERCENT)
            \/ AddOverflows(base_performance_fee, performance_bonus)
            \/ AddOverflows(base_management_fee, total_performance_fee)
            \/ SubOverflows(p.total_value, deduction)
    IN  IF overflow_checks /\ overflow
        THEN Outcome("Panic", p, s, <<>>, "none")
        ELSE Outcome("Ok",
                     [p EXCEPT !.total_value = WrapSub(@, deduction)],
                     s,
                     <<FeesApplied(p.owner, base_management_fee, total_performance_fee)>>,
                     "none")

(* rebalance_automatically taking the thresholds themselves as out of bounds. *)
rebalance_automatically_inclusive(p, s, target_ratios) ==
    IF p.total_value >= p.max_value_threshold \/ p.total_value <= p.min_value_threshold
    THEN rebalance_portfolio(p, s, target_ratios)
    ELSE Outcome("Ok", p, s, <<>>, "none")

rebalance_automatically(p, s, target_ratios) ==
    IF p.total_value > p.max_value_threshold \/ p.total_value < p.min_value_threshold
    THEN rebalance_portfolio(p, s, target_ratios)
    ELSE Outcome("Ok", p, s, <<>>, "none")

(* distribute_staking_rewards crediting reward_amount to the stake. *)
distribute_staking_rewards_crediting(p, s, reward_amount, now) ==
    LET current_time == now
        staking_duration == current_time - s.last_reward_claim_timestamp
    IN  IF overflow_checks /\ MulOverflows(reward_amount, CastU64(staking_duration))
        THEN Outcome("Panic", p, s, <<>>, "none")
        ELSE Outcome("Ok", p,
                     [s EXCEPT !.amount = WrapAdd(@, reward_amount),
                               !.last_reward_claim_timestamp = current_time],
                     <<>>, "none")

distribute_staking_rewards(p, s, reward_amount, now) ==
    LET current_time == now
        staking_duration == current_time - s.last_reward_claim_timestamp
    IN  IF overflow_checks /\ MulOverflows(reward_amount, CastU64(staking_duration))
        THEN Outcome("Panic", p, s, <<>>, "none")
        ELSE Outcome("Ok", p,
                     [s EXCEPT !.last_reward_claim_timestamp = current_time],
                     <<>>, "none")

(* the reward distribute_staking_rewards computes and drops *)
staking_reward(s, reward_amount, now) ==
    WrapMul(reward_amount, CastU64(now - s.last_reward_claim_timestamp)) \div REWARD_SCALE

take_flash_loan(p, s, amount) == Outcome("Ok", p, s, <<>>, "none")

(* issue_governance_tokens minting the amount as new shares. *)
issue_governance_tokens_minting(p, s, amount) ==
    Outcome("Ok", [p EXCEPT !.total_shares = WrapAdd(@, amount)], s, <<>>, "none")

issue_governance_tokens(p, s, amount) == Outcome("Ok", p, s, <<>>, "none")

withdraw_with_multisig(p, s, amount) == Outcome("Ok", p, s, <<>>, "none")

(* ------------------------- commit and actions ------------------------- *)
(* The accounts are serialized back into their fixed-size buffers when the *)
(* handler returns Ok; the buffer holds MaxAssets assets and MaxHistory    *)
(* snapshots.                                                              *)
Fits(p) ==
    /\ Len(p.assets) <= MaxAssets
    /\ Len(p.historical_values) <= MaxHistory

Result(out) ==
    IF out.result = "Ok" /\ ~Fits(out.portfolio)
    THEN "AccountDidNotSerialize"
    ELSE out.result

(* Commit with the handler's copy written back whatever the result.        *)
CommitWithoutRollback(out, stored_p, stored_s) ==
    [portfolio |-> out.portfolio, user_stake |-> out.user_stake]

(* What is stored after the instruction: the handler's copy when it and    *)
(* the write-back succeeded, the accounts as they were otherwise.          *)
Commit(out, stored_p, stored_s) ==
    IF Result(out) = "Ok"
    THEN [portfolio |-> out.portfolio, user_stake |-> out.user_stake]
    ELSE [portfolio |-> stored_p, user_stake |-> stored_s]

(* has_one = owner, owner: Signer *)
Authorized(signer) == signer = portfolio.owner

Rebalances == {"rebalance_portfolio", "rebalance_automatically"}

Instruction(op, args, out) ==
    /\ steps < MaxSteps
    /\ \E signer \in Identities : Authorized(signer)
    /\ portfolio' = Commit(out, portfolio, user_stake).portfolio
    /\ user_stake' = Commit(out, portfolio, user_stake).user_stake
    /\ last' = [op |-> op, args |-> args, result |-> Result(out),
                event |-> IF Result(out) = "Ok" THEN out.event ELSE <<>>,
                cpi |-> out.cpi]
    /\ rebalanced' = (rebalanced \/ (op \in Rebalances /\ Result(out) = "Ok"))
    /\ steps' = steps + 1
    /\ UNCHANGED <<clock, overflow_checks>>

AddAsset ==
    \E symbol \in Symbols, amount \in AssetAmounts, value \in AssetValues :
        Instruction("add_asset",
                    [symbol |-> symbol, amount |-> amount, value |-> value],
                    add_asset(portfolio, user_stake, symbol, amount, value))

TransferAsset ==
    \E symbol \in Symbols, amount \in MoveAmounts, transfer_ok \in BOOLEAN :
        Instruction("transfer_asset",
                    [symbol |-> symbol, amount |-> amount],
                    transfer_asset(portfolio, user_stake, symbol, amount, transfer_ok))

UpdateAssetValue ==
    \E symbol \in Symbols, new_value \in NewValues :
        Instruction("update_asset_value",
                    [symbol |-> symbol, new_value |-> new_value],
                    update_asset_value(portfolio, user_stake, symbol, new_value))

RecordPerformance ==
    \E current_value \in SnapshotValues :
        Instruction("record_performance",
                    [current_value |-> current_value],
                    record_performance(portfolio, user_stake, current_value, clock))

RebalancePortfolio ==
    \E target_ratios \in RatioVectors :
        Instruction("rebalance_portfolio",
                    [target_ratios |-> target_ratios],
                    rebalance_portfolio(portfolio, user_stake, target_ratios))

WithdrawAsset ==
    \E symbol \in Symbols, amount \in MoveAmounts, transfer_ok \in BOOLEAN :
        Instruction("withdraw_asset",
                    [symbol |-> symbol, amount |-> amount],
                    withdraw_asset(portfolio, user_stake, symbol, amount, transfer_ok))

CheckRisk ==
    Instruction("check_risk", [advisory |-> check_risk_advisory(portfolio)],
                check_risk(portfolio, user_stake))

UpdateAssetValueWithOracle ==
    \E symbol \in Symbols :
        Instruction("update_asset_value_with_oracle",
                    [symbol |-> symbol],
                    update_asset_value_with_oracle(portfolio, user_stake, symbol))

ApplyFees ==
    Instruction("apply_fees", [none |-> TRUE], apply_fees(portfolio, user_stake))

StakeTokens ==
    \E amount \in StakeAmounts, transfer_ok \in BOOLEAN :
        Instruction("stake_tokens",
                    [amount |-> amount],
                    stake_tokens(portfolio, user_stake, amount, clock, transfer_ok))

ProvideLiquidity ==
    \E symbol \in Symbols, amount \in MoveAmounts, transfer_ok \in BOOLEAN :
        Instruction("provide_liquidity",
                    [symbol |-> symbol, amount |-> amount],
                    provide_liquidity(portfolio, user_stake, symbol, amount, transfer_ok))

ApplyDynamicFees ==
    \E performance_bonus_threshold \in BonusThresholds :
        Instruction("apply_dynamic_fees",
                    [performance_bonus_threshold |-> performance_bonus_threshold],
                    apply_dynamic_fees(portfolio, user_stake, performance_bonus_threshold))

RebalanceAutomatically ==
    \E target_ratios \in RatioVectors :
        Instruction("rebalance_automatically",
                    [target_ratios |-> target_ratios],
                    rebalance_automatically(portfolio, user_stake, target_ratios))

DistributeStakingRewards ==
    \E reward_amount \in RewardAmounts :
        Instruction("distribute_staking_rewards",
                    [reward_amount |-> reward_amount],
                    distribute_staking_rewards(portfolio, user_stake, reward_amount, clock))

TakeFlashLoan ==
    \E amount \in StubAmounts :
        Instruction("take_flash_loan", [amount |-> amount],
                    take_flash_loan(portfolio, user_stake, amount))

IssueGovernanceTokens ==
    \E amount \in StubAmounts :
        Instruction("issue_governance_tokens", [amount |-> amount],
                    issue_governance_tokens(portfolio, user_stake, amount))

WithdrawWithMultisig ==
    \E amount \in StubAmounts :
        Instruction("withdraw_with_multisig", [amount |-> amount],
                    withdraw_with_multisig(portfolio, user_stake, amount))

(* Clock::get()?.unix_timestamp never decreases between instructions. *)
ClockTick ==
    /\ clock < MaxClock
    /\ clock' = clock + 1
    /\ last' = [op |-> "clock_tick", args |-> [none |-> TRUE], result |-> "Ok",
                event |-> <<>>, cpi |-> "none"]
    /\ UNCHANGED <<portfolio, user_stake, overflow_checks, rebalanced, steps>>

InitStake ==
    [owner |-> OWNER, amount |-> 0, last_reward_claim_timestamp |-> 0]

(* The state after initialize_portfolio, under either build. *)
Init ==
    /\ clock = 1
    /\ overflow_checks \in BOOLEAN
    /\ portfolio = initialize_portfolio(OWNER, clock)
    /\ user_stake = InitStake
    /\ last = [op |-> "initialize_portfolio", args |-> [owner |-> OWNER],
               result |-> "Ok", event |-> <<>>, cpi |-> "none"]
    /\ rebalanced = FALSE
    /\ steps = 0

(* Ledgers whose thresholds and fee rate hold other values than the ones   *)
(* initialize_portfolio writes: the handlers read min_value_threshold,     *)
(* max_value_threshold and management_fee as inputs, and the claims about  *)
(* them as functions of these fields are checked from here.                *)
Configurations ==
    { [min_value_threshold |-> 100, max_value_threshold |-> 200, management_fee |-> 10],
      [min_value_threshold |-> 0, max_value_threshold |-> U64_MAX, management_fee |-> 150] }

InitConfigured ==
    /\ clock = 1
    /\ overflow_checks \in BOOLEAN
    /\ \E c \in Configurations :
          portfolio = [initialize_portfolio(OWNER, clock) EXCEPT
                          !.min_value_threshold = c.min_value_threshold,
                          !.max_value_threshold = c.max_value_threshold,
                          !.management_fee = c.management_fee]
    /\ user_stake = InitStake
    /\ last = [op |-> "initialize_portfolio", args |-> [owner |-> OWNER],
               result |-> "Ok", event |-> <<>>, cpi |-> "none"]
    /\ rebalanced = FALSE
    /\ steps = 0

Next ==
    \/ AddAsset
    \/ TransferAsset
    \/ UpdateAssetValue
    \/ RecordPerformance
    \/ RebalancePortfolio
    \/ WithdrawAsset
    \/ CheckRisk
    \/ UpdateAssetValueWithOracle
    \/ ApplyFees
    \/ StakeTokens
    \/ ProvideLiquidity
    \/ ApplyDynamicFees
    \/ RebalanceAutomatically
    \/ DistributeStakingRewards
    \/ TakeFlashLoan
    \/ IssueGovernanceTokens
    \/ WithdrawWithMultisig
    \/ ClockTick

Spec == Init /\ [][Next]_vars

SpecConfigured == InitConfigured /\ [][Next]_vars

(* ------------------------------ claims -------------------------------- *)
RECURSIVE SumOfValues(_)
SumOfValues(assets) ==
    IF assets = <<>> THEN 0
    ELSE assets[1].value + SumOfValues(Tail(assets))

(* C1: in every state reached from initialize_portfolio by transitions     *)
(* that contain no rebalance, total_value equals the sum of value over all *)
(* entries of assets.                                                      *)
C1_TotalValueIsSumOfValues ==
    ~rebalanced => portfolio.total_value = SumOfValues(portfolio.assets)

(* C2: a transition that fails, or whose token transfer fails, leaves the  *)
(* stored Portfolio and UserStake exactly as they were: no amount          *)
(* decrement, total_value reduction or stake increment stays behind.       *)
C2_FailureCommitsNothing ==
    [][(last'.result # "Ok" \/ last'.cpi = "failed")
          => (portfolio' = portfolio /\ user_stake' = user_stake)]_vars

(* C2 witness: a token transfer failed after the handler had already       *)
(* changed its copy of the accounts, for each of the three handlers.       *)
C2_Witness ==
    /\ last.op \in {"transfer_asset", "withdraw_asset", "stake_tokens"}
    /\ last.result = "TransferFailed"
    /\ last.cpi = "failed"
    /\ portfolio.assets # <<>>

(* The state the instruction `last` names was applied to is the unprimed   *)
(* state of the step; these read its arguments in an action formula.       *)
Ran(op) == last'.op = op
FirstMatch(symbol) == Position(portfolio.assets, symbol)

(* C3: update_asset_value(symbol, new_value) on a ledger holding the       *)
(* symbol sets the (first) asset's value to new_value and total_value to   *)
(* old total_value - prior value + new_value in the same transition and    *)
(* emits AssetUpdated(prior value, new_value); with no such asset it fails *)
(* with AssetNotFound.  update_asset_value_with_oracle(symbol) does what   *)
(* update_asset_value(symbol, oracle price) does.                          *)
C3_UpdateEffect(symbol, new_value) ==
    LET i == FirstMatch(symbol)
        old_value == portfolio.assets[i].value
    IN  IF i = 0
        THEN last'.result = "AssetNotFound" /\ portfolio' = portfolio
        ELSE /\ last'.result = "Ok"
             /\ portfolio' =
                  [portfolio EXCEPT
                     !.assets[i].value = new_value,
                     !.total_value = portfolio.total_value - old_value + new_value]
             /\ last'.event =
                  <<AssetUpdated(portfolio.owner, symbol, old_value, new_value)>>

C3_UpdateSetsValueAndTotal ==
    [][/\ Ran("update_asset_value")
          => C3_UpdateEffect(last'.args.symbol, last'.args.new_value)
       /\ Ran("update_asset_value_with_oracle")
          => C3_UpdateEffect(last'.args.symbol, get_oracle_price)]_vars

(* C4: a successful withdraw_asset(symbol, amount) lowers total_value by    *)
(* amount * asset.value and the asset's amount by amount; when             *)
(* amount * asset.value exceeds total_value the operation fails instead of *)
(* wrapping total_value around.                                            *)
C4_WithdrawReducesOrFails ==
    [][Ran("withdraw_asset") =>
         LET i == FirstMatch(last'.args.symbol)
             amount == last'.args.amount
             due == amount * portfolio.assets[i].value
         IN  /\ last'.result = "Ok" =>
                  /\ portfolio'.total_value = portfolio.total_value - due
                  /\ portfolio'.assets[i].amount = portfolio.assets[i].amount - amount
             /\ (i # 0 /\ due > portfolio.total_value) => last'.result # "Ok"]_vars

(* C5: for every asset of every reachable ledger, withdraw_asset of        *)
(* exactly the asset's amount succeeds and leaves its amount at 0, and     *)
(* withdraw_asset of its amount + 1 fails with InsufficientBalance and     *)
(* changes nothing (the token transfer itself not failing).                *)
C5_WithdrawBoundary ==
    [][(Ran("withdraw_asset") /\ last'.cpi # "failed") =>
         \A i \in 1..Len(portfolio.assets) :
            portfolio.assets[i].symbol = last'.args.symbol =>
              /\ last'.args.amount = portfolio.assets[i].amount =>
                    /\ last'.result = "Ok"
                    /\ portfolio'.assets[i].amount = 0
              /\ last'.args.amount = portfolio.assets[i].amount + 1 =>
                    /\ last'.result = "InsufficientBalance"
                    /\ portfolio' = portfolio
                    /\ user_stake' = user_stake]_vars

(* C6: a successful transfer_asset(symbol, amount) lowers the first        *)
(* matching asset's amount by exactly amount and leaves total_value and    *)
(* every asset's value as they were; it fails with AssetNotFound when the  *)
(* symbol is absent and with InsufficientBalance when the asset holds less *)
(* than amount.  provide_liquidity makes the same two checks and never     *)
(* changes total_value or an asset's value.                                *)
C6_ValuesKept ==
    /\ portfolio'.total_value = portfolio.total_value
    /\ Len(portfolio'.assets) = Len(portfolio.assets)
    /\ \A j \in 1..Len(portfolio.assets) :
          portfolio'.assets[j].value = portfolio.assets[j].value

C6_BalanceChecks ==
    LET i == FirstMatch(last'.args.symbol)
    IN  /\ i = 0 => last'.result = "AssetNotFound"
        /\ (i # 0 /\ portfolio.assets[i].amount < last'.args.amount)
              => last'.result = "InsufficientBalance"
        /\ last'.result = "Ok" =>
              (i # 0 /\ portfolio.assets[i].amount >= last'.args.amount)

C6_TransferMovesAmountOnly ==
    [][/\ Ran("transfer_asset") =>
            /\ C6_BalanceChecks
            /\ C6_ValuesKept
            /\ last'.result = "Ok" =>
                 LET i == FirstMatch(last'.args.symbol)
                 IN  portfolio'.assets[i].amount =
                        portfolio.assets[i].amount - last'.args.amount
       /\ Ran("provide_liquidity") => (C6_BalanceChecks /\ C6_ValuesKept)]_vars

(* C6 witness: a transfer went through on a ledger worth something, and    *)
(* the asset now holds less than was added.                                *)
C6_Witness ==
    /\ last.op = "transfer_asset"
    /\ last.result = "Ok"
    /\ portfolio.total_value > 0
    /\ LET i == Position(portfolio.assets, last.args.symbol)
       IN  portfolio.assets[i].amount + last.args.amount \in AssetAmounts

C8_DynamicFeesDeduction ==
    [][Ran("apply_dynamic_fees") =>
         LET T == portfolio.total_value
             management_fee_amount == (T * portfolio.management_fee) \div 100
             base_performance_fee == 0
             bonus == IF T > last'.args.performance_bonus_threshold
                      THEN (T * 5) \div 100
                      ELSE 0
         IN  /\ last'.result = "Ok"
             /\ portfolio' =
                  [portfolio EXCEPT !.total_value =
                      T - (management_fee_amount + base_performance_fee + bonus)]
             /\ last'.event =
                  <<FeesApplied(portfolio.owner, management_fee_amount,
                                base_performance_fee + bonus)>>]_vars

(* The percentage of the last pair of target_ratios naming the symbol. *)
Named(target_ratios, symbol) ==
    \E k \in 1..Len(target_ratios) : target_ratios[k][1] = symbol

LastRatio(target_ratios, symbol) ==
    LET k == CHOOSE k \in 1..Len(target_ratios) :
                /\ target_ratios[k][1] = symbol
                /\ \A l \in (k + 1)..Len(target_ratios) : target_ratios[l][1] # symbol
    IN  target_ratios[k][2]

(* C9: rebalance_portfolio(target_ratios) always succeeds; it sets the     *)
(* value of the asset each pair's symbol finds to floor(T * percentage /   *)
(* 100), T being total_value read once at the start; it skips pairs that   *)
(* match no asset and leaves total_value, every amount and every asset no  *)
(* pair finds as they were.                                                *)
C9_RebalanceSetsValues ==
    [][Ran("rebalance_portfolio") =>
         LET T == portfolio.total_value
             target_ratios == last'.args.target_ratios
             target(j) ==
                 LET symbol == portfolio.assets[j].symbol
                 IN  IF Named(target_ratios, symbol) /\ FirstMatch(symbol) = j
                     THEN [portfolio.assets[j] EXCEPT
                             !.value = (T * LastRatio(target_ratios, symbol)) \div 100]
                     ELSE portfolio.assets[j]
         IN  /\ last'.result = "Ok"
             /\ portfolio' =
                  [portfolio EXCEPT
                     !.assets = [j \in 1..Len(portfolio.assets) |-> target(j)]]]_vars

(* C10: rebalance_automatically(target_ratios) does what                   *)
(* rebalance_portfolio(target_ratios) does when total_value is below       *)
(* min_value_threshold or above max_value_threshold, and otherwise, also   *)
(* with total_value equal to either threshold, succeeds and leaves the     *)
(* ledger as it was.                                                       *)
C10_AutomaticRebalanceGated ==
    [][Ran("rebalance_automatically") =>
         LET T == portfolio.total_value
             target_ratios == last'.args.target_ratios
             direct == rebalance_portfolio(portfolio, user_stake, target_ratios)
         IN  IF T < portfolio.min_value_threshold \/ T > portfolio.max_value_threshold
             THEN /\ last'.result = Result(direct)
                  /\ portfolio' = Commit(direct, portfolio, user_stake).portfolio
                  /\ user_stake' = user_stake
             ELSE /\ last'.result = "Ok"
                  /\ portfolio' = portfolio
                  /\ user_stake' = user_stake]_vars

(* C10 witness: an automatic rebalance ran above max_value_threshold and   *)
(* gave the asset its pair names a new value.                              *)
C10_Witness ==
    /\ last.op = "rebalance_automatically"
    /\ last.result = "Ok"
    /\ portfolio.total_value > portfolio.max_value_threshold
    /\ last.args.target_ratios # <<>>
    /\ \E j \in 1..Len(portfolio.assets) :
          /\ Named(last.args.target_ratios, portfolio.assets[j].symbol)
          /\ portfolio.assets[j].value \notin AssetValues \cup NewValues
          /\ portfolio.assets[j].value =
               (portfolio.total_value
                  * LastRatio(last.args.target_ratios, portfolio.assets[j].symbol)) \div 100

(* C11: check_risk fails with UnderMinValue exactly when total_value is    *)
(* below min_value_threshold; with total_value above max_value_threshold   *)
(* it succeeds and signals the advisory condition, which it signals in no  *)
(* other case; failing or not, it leaves Portfolio and UserStake as they   *)
(* were.                                                                   *)
C11_CheckRiskOnlyReports ==
    [][Ran("check_risk") =>
         LET T == portfolio.total_value
         IN  /\ last'.result = "UnderMinValue" <=> T < portfolio.min_value_threshold
             /\ last'.result \in {"Ok", "UnderMinValue"}
             /\ T > portfolio.max_value_threshold =>
                   (last'.result = "Ok" /\ last'.args.advisory)
             /\ last'.args.advisory => T > portfolio.max_value_threshold
             /\ portfolio' = portfolio
             /\ user_stake' = user_stake]_vars

(* C11 witness: check_risk succeeded, with the advisory, on a ledger worth *)
(* more than a max_value_threshold that is itself above the minimum.       *)
C11_Witness ==
    /\ last.op = "check_risk"
    /\ last.result = "Ok"
    /\ last.args.advisory
    /\ portfolio.min_value_threshold > 0
    /\ portfolio.total_value > portfolio.max_value_threshold

(* The stored ledger after update_asset_value(symbol, v) is processed on   *)
(* the stored ledger p.                                                    *)
AfterUpdate(p, symbol, v) ==
    Commit(update_asset_value(p, user_stake, symbol, v), p, user_stake).portfolio

(* C12: for every reachable ledger, every symbol it holds and every value  *)
(* v, processing update_asset_value(symbol, v) twice in a row leaves       *)
(* total_value and the asset's value after the second call as they were    *)
(* after the first.                                                        *)
C12_UpdateIdempotent ==
    \A symbol \in Symbols, v \in NewValues :
        LET i == Position(portfolio.assets, symbol)
            once == AfterUpdate(portfolio, symbol, v)
            twice == AfterUpdate(once, symbol, v)
        IN  i # 0 =>
              /\ twice.total_value = once.total_value
              /\ twice.assets[i].value = once.assets[i].value

(* C12 witness: an update_asset_value(symbol, v) with v > 0 went through   *)
(* on a ledger of two assets, and the same call goes through again on the  *)
(* ledger it left.                                                         *)
C12_Witness ==
    /\ last.op = "update_asset_value"
    /\ last.result = "Ok"
    /\ last.args.new_value > 0
    /\ Len(portfolio.assets) = 2
    /\ portfolio.total_value > last.args.new_value
    /\ Result(update_asset_value(portfolio, user_stake,
                                 last.args.symbol, last.args.new_value)) = "Ok"
    /\ AfterUpdate(portfolio, last.args.symbol, last.args.new_value) = portfolio

(* C13: initialize_portfolio(owner) leaves a ledger with owner the caller, *)
(* total_value 0, total_shares 1_000_000, no assets, no historical values, *)
(* min_value_threshold 0, max_value_threshold the largest unsigned value   *)
(* of the word, management_fee 0, performance_fee 0 and                    *)
(* last_update_timestamp the current clock reading.                        *)
C13_InitialLedger ==
    last.op = "initialize_portfolio" =>
        portfolio = [owner |-> last.args.owner,
                     total_value |-> 0,
                     total_shares |-> 1000000,
                     assets |-> <<>>,
                     historical_values |-> <<>>,
                     min_value_threshold |-> 0,
                     max_value_threshold |-> 2 ^ WordBits - 1,
                     management_fee |-> 0,
                     performance_fee |-> 0,
                     last_update_timestamp |-> clock]

(* C13 witness: the ledger as initialize_portfolio left it, before any     *)
(* other instruction.                                                      *)
C13_Witness ==
    /\ last.op = "initialize_portfolio"
    /\ last.result = "Ok"
    /\ steps = 0
    /\ portfolio.owner = OWNER
    /\ portfolio.last_update_timestamp = clock

(* C14: add_asset(symbol, amount, value) always succeeds; it appends the   *)
(* one entry (symbol, amount, value) at the end of assets, whether or not  *)
(* the symbol is already there, raises total_value by value, leaves the    *)
(* earlier entries and the rest of the ledger as they were and emits       *)
(* AssetUpdated with old_value 0 and new_value value.                      *)
C14_AddAssetAppends ==
    [][Ran("add_asset") =>
         LET symbol == last'.args.symbol
             amount == last'.args.amount
             value == last'.args.value
         IN  /\ last'.result = "Ok"
             /\ portfolio' =
                  [portfolio EXCEPT
                     !.assets = Append(@, Asset(symbol, amount, value)),
                     !.total_value = @ + value]
             /\ last'.event = <<AssetUpdated(portfolio.owner, symbol, 0, value)>>]_vars

(* C15: in every state after initialize_portfolio, whatever instructions   *)
(* ran (the flash-loan, governance-token and multisig stubs included), the *)
(* ledger's owner is the identity that created it and total_shares is      *)
(* 1_000_000.                                                              *)
C15_OwnerAndSharesFixed ==
    /\ portfolio.owner = OWNER
    /\ portfolio.total_shares = 1000000

(* C15 witness: the governance-token stub ran last, after instructions     *)
(* that changed the ledger.                                                *)
C15_Witness ==
    /\ last.op = "issue_governance_tokens"
    /\ last.result = "Ok"
    /\ steps = MaxSteps
    /\ portfolio.assets # <<>>
    /\ portfolio.total_value # SumOfValues(portfolio.assets)

IsPrefix(shorter, longer) ==
    /\ Len(shorter) <= Len(longer)
    /\ \A k \in 1..Len(shorter) : shorter[k] = longer[k]

(* C16: across every transition the previous historical_values is a prefix *)
(* of the new one; it grows only in record_performance(current_value), by  *)
(* the one element current_value at the end, and that instruction also     *)
(* sets last_update_timestamp to the current clock reading and leaves      *)
(* total_value and assets as they were; no other instruction changes       *)
(* last_update_timestamp.                                                  *)
C16_HistoryAppendOnly ==
    [][/\ IsPrefix(portfolio.historical_values, portfolio'.historical_values)
       /\ portfolio'.historical_values # portfolio.historical_values
             => Ran("record_performance")
       /\ (Ran("record_performance") /\ last'.result = "Ok") =>
             /\ portfolio'.historical_values =
                  Append(portfolio.historical_values, last'.args.current_value)
             /\ portfolio'.last_update_timestamp = clock
             /\ portfolio'.total_value = portfolio.total_value
             /\ portfolio'.assets = portfolio.assets
       /\ ~Ran("record_performance") =>
             portfolio'.last_update_timestamp = portfolio.last_update_timestamp]_vars

(* C16 witness: a second snapshot, different from the first, was recorded  *)
(* at a later clock reading than the ledger was created at, on a ledger    *)
(* that holds an asset.                                                    *)
C16_Witness ==
    /\ last.op = "record_performance"
    /\ last.result = "Ok"
    /\ Len(portfolio.historical_values) = 2
    /\ portfolio.historical_values[1] # portfolio.historical_values[2]
    /\ portfolio.historical_values[2] = last.args.current_value
    /\ portfolio.last_update_timestamp = clock
    /\ clock > 1
    /\ portfolio.assets # <<>>

(* C17: a successful stake_tokens(amount) raises the stake record's amount *)
(* by exactly amount and sets last_reward_claim_timestamp to the current   *)
(* clock reading, and no transition lowers the stake record's amount.      *)
C17_StakeOnlyGrows ==
    [][/\ (Ran("stake_tokens") /\ last'.result = "Ok") =>
             /\ user_stake'.amount = user_stake.amount + last'.args.amount
             /\ user_stake'.last_reward_claim_timestamp = clock
       /\ user_stake'.amount >= user_stake.amount]_vars

(* C18: distribute_staking_rewards(reward_rate) changes nothing but the    *)
(* stake record's last_reward_claim_timestamp, which it sets to the        *)
(* current clock reading: the stake record's amount and owner and the      *)
(* whole Portfolio are as they were, the reward being credited nowhere.    *)
C18_DistributeOnlyStampsTime ==
    [][Ran("distribute_staking_rewards") =>
         /\ portfolio' = portfolio
         /\ user_stake'.amount = user_stake.amount
         /\ user_stake'.owner = user_stake.owner
         /\ last'.event = <<>>
         /\ last'.cpi = "none"
         /\ last'.result = "Ok" =>
               user_stake' = [user_stake EXCEPT !.last_reward_claim_timestamp = clock]]_vars

(* C18 witness: rewards were distributed on a stake that holds tokens,     *)
(* after the clock had advanced, next to a ledger that holds an asset.     *)
C18_Witness ==
    /\ last.op = "distribute_staking_rewards"
    /\ last.result = "Ok"
    /\ user_stake.amount > 0
    /\ user_stake.last_reward_claim_timestamp = clock
    /\ clock > 1
    /\ portfolio.assets # <<>>

(* The handler's run behind a transfer_asset, withdraw_asset or            *)
(* provide_liquidity step: its copy of the accounts at the point where it  *)
(* returned, which in all three is the point of the token transfer.        *)
MovingHandlers == {"transfer_asset", "withdraw_asset", "provide_liquidity"}

HandlerRun(op, symbol, amount, transfer_ok) ==
    CASE op = "transfer_asset" ->
            transfer_asset(portfolio, user_stake, symbol, amount, transfer_ok)
      [] op = "withdraw_asset" ->
            withdraw_asset(portfolio, user_stake, symbol, amount, transfer_ok)
      [] op = "provide_liquidity" ->
            provide_liquidity(portfolio, user_stake, symbol, amount, transfer_ok)

(* C19: in transfer_asset, withdraw_asset and provide_liquidity the token  *)
(* transfer is invoked only when the symbol was found, the balance check   *)
(* passed and the handler's ledger already shows the asset's amount        *)
(* lowered by the requested amount; with the symbol missing or the balance *)
(* insufficient it is not invoked.                                         *)
C19_TransferAfterDecrement ==
    [][last'.op \in MovingHandlers =>
         LET symbol == last'.args.symbol
             amount == last'.args.amount
             i == FirstMatch(symbol)
             out == HandlerRun(last'.op, symbol, amount, last'.cpi # "failed")
         IN  /\ out.cpi = last'.cpi
             /\ last'.cpi # "none" =>
                   /\ i # 0
                   /\ portfolio.assets[i].amount >= amount
                   /\ out.portfolio.assets[i].amount =
                        portfolio.assets[i].amount - amount
             /\ (i = 0 \/ portfolio.assets[i].amount < amount) =>
                   last'.cpi = "none"]_vars

UniqueSymbols(assets) ==
    \A i, j \in 1..Len(assets) : assets[i].symbol = assets[j].symbol => i = j

RECURSIVE SumOfRatios(_)
SumOfRatios(target_ratios) ==
    IF target_ratios = <<>> THEN 0
    ELSE target_ratios[1][2] + SumOfRatios(Tail(target_ratios))

(* target_ratios names every asset exactly once, names nothing else, and   *)
(* its percentages sum to 100.                                             *)
MatchingRatios(target_ratios, assets) ==
    /\ Len(target_ratios) = Len(assets)
    /\ \A i \in 1..Len(assets) :
          Cardinality({k \in 1..Len(target_ratios) :
                          target_ratios[k][1] = assets[i].symbol}) = 1
    /\ SumOfRatios(target_ratios) = 100

MatchingRebalance ==
    /\ Ran("rebalance_portfolio")
    /\ last'.result = "Ok"
    /\ UniqueSymbols(portfolio.assets)
    /\ MatchingRatios(last'.args.target_ratios, portfolio.assets)

(* C20, as stated: with unique asset symbols and target_ratios naming      *)
(* every asset exactly once with percentages that sum to 100, the state    *)
(* after rebalance_portfolio has total_value = the sum of all asset        *)
(* values, whatever total_value is.                                        *)
C20_MatchingRatiosKeepSum ==
    [][MatchingRebalance =>
         portfolio'.total_value = SumOfValues(portfolio'.assets)]_vars

(* C20, amended: under the same conditions the sum of all asset values     *)
(* after rebalance_portfolio never exceeds total_value, and equals it      *)
(* exactly when every total_value * percentage is a multiple of 100 that   *)
(* fits the word: each value is the quotient rounded down, of the wrapped  *)
(* product where the product overflows.                                    *)
C20_MatchingRatiosBoundSum ==
    [][MatchingRebalance =>
         LET T == portfolio'.total_value
             target_ratios == last'.args.target_ratios
             sum == SumOfValues(portfolio'.assets)
             exact == \A k \in 1..Len(target_ratios) :
                         /\ (T * target_ratios[k][2]) % 100 = 0
                         /\ T * target_ratios[k][2] <= 2 ^ WordBits - 1
         IN  /\ sum <= T
             /\ sum = T <=> exact]_vars

(* C20 witness: two assets of different symbols were rebalanced half and   *)
(* half on an odd total_value, and their values sum to one less.           *)
C20_Witness ==
    /\ last.op = "rebalance_portfolio"
    /\ last.result = "Ok"
    /\ Len(portfolio.assets) = 2
    /\ UniqueSymbols(portfolio.assets)
    /\ MatchingRatios(last.args.target_ratios, portfolio.assets)
    /\ portfolio.total_value % 2 = 1
    /\ SumOfValues(portfolio.assets) = portfolio.total_value - 1

(* The asset at index j is the earliest-added one with its symbol. *)
IsEarliest(assets, j) ==
    \A i \in 1..(j - 1) : assets[i].symbol # assets[j].symbol

SymbolAddressed ==
    {"update_asset_value", "update_asset_value_with_oracle", "transfer_asset",
     "withdraw_asset", "provide_liquidity"}

(* C21: with several assets of one symbol, every symbol-addressed          *)
(* instruction (update_asset_value, update_asset_value_with_oracle,        *)
(* transfer_asset, withdraw_asset, provide_liquidity, rebalance_portfolio  *)
(* and its automatic form) reads and writes only the earliest-added asset  *)
(* of that symbol: no transition changes the amount or value of a later    *)
(* duplicate, an asset an instruction changes is the earliest one of the   *)
(* symbol it names, and the balance check is decided by that asset.        *)
C21_FirstMatchOnly ==
    [][/\ Len(portfolio'.assets) >= Len(portfolio.assets)
       /\ \A j \in 1..Len(portfolio.assets) :
             /\ ~IsEarliest(portfolio.assets, j) =>
                   portfolio'.assets[j] = portfolio.assets[j]
             /\ (last'.op \in SymbolAddressed
                   /\ portfolio'.assets[j] # portfolio.assets[j]) =>
                   /\ portfolio.assets[j].symbol = last'.args.symbol
                   /\ IsEarliest(portfolio.assets, j)
             /\ (last'.op \in Rebalances
                   /\ portfolio'.assets[j] # portfolio.assets[j]) =>
                   /\ Named(last'.args.target_ratios, portfolio.assets[j].symbol)
                   /\ IsEarliest(portfolio.assets, j)
             /\ (last'.op \in MovingHandlers
                   /\ portfolio.assets[j].symbol = last'.args.symbol
                   /\ IsEarliest(portfolio.assets, j)) =>
                   (last'.result = "InsufficientBalance"
                      <=> portfolio.assets[j].amount < last'.args.amount)]_vars

(* C21 witness: update_asset_value ran on a ledger holding two assets of   *)
(* the symbol it names; the first has the new value and the second still   *)
(* the value it was added with.                                            *)
C21_Witness ==
    /\ last.op = "update_asset_value"
    /\ last.result = "Ok"
    /\ Len(portfolio.assets) = 2
    /\ portfolio.assets[1].symbol = last.args.symbol
    /\ portfolio.assets[2].symbol = last.args.symbol
    /\ last.args.new_value \notin AssetValues
    /\ portfolio.assets[1].value = last.args.new_value
    /\ portfolio.assets[2].value \in AssetValues

(* C22: with a clock that never decreases, the staking duration            *)
(* now - last_reward_claim_timestamp that a distribute_staking_rewards     *)
(* called in the state would compute is non-negative, in every state and   *)
(* so after any sequence of stake_tokens and distribute_staking_rewards,   *)
(* and its conversion to u64 is the duration itself.                       *)
C22_DurationNonNegative ==
    LET staking_duration == clock - user_stake.last_reward_claim_timestamp
    IN  /\ staking_duration >= 0
        /\ CastU64(staking_duration) = staking_duration

(* C22 witness: rewards were distributed after a stake and after the clock *)
(* had advanced to its last reading.                                       *)
C22_Witness ==
    /\ last.op = "distribute_staking_rewards"
    /\ last.result = "Ok"
    /\ user_stake.amount = 1
    /\ clock = MaxClock
    /\ steps = 2
    /\ clock - user_stake.last_reward_claim_timestamp = 0

(* C23: no instruction writes min_value_threshold, max_value_threshold,    *)
(* management_fee or performance_fee, so in every state reached from       *)
(* initialize_portfolio they are 0, the largest unsigned value of the      *)
(* word, 0 and 0; and so, on every such ledger, check_risk never fails     *)
(* with UnderMinValue, rebalance_automatically changes no asset value and  *)
(* apply_fees leaves total_value as it was.                                *)
C23_DefaultsKept ==
    /\ portfolio.min_value_threshold = 0
    /\ portfolio.max_value_threshold = 2 ^ WordBits - 1
    /\ portfolio.management_fee = 0
    /\ portfolio.performance_fee = 0

C23_DefaultsDisableChecks ==
    /\ Ran("check_risk") => last'.result # "UnderMinValue"
    /\ Ran("rebalance_automatically") =>
          /\ Len(portfolio'.assets) = Len(portfolio.assets)
          /\ \A j \in 1..Len(portfolio.assets) :
                portfolio'.assets[j].value = portfolio.assets[j].value
    /\ Ran("apply_fees") => portfolio'.total_value = portfolio.total_value

C23_ThresholdsAndFeesNeverSet ==
    /\ []C23_DefaultsKept
    /\ [][C23_DefaultsDisableChecks]_vars

(* C23 witness: apply_fees succeeded on a ledger worth something, as the   *)
(* last of the instructions.                                               *)
C23_Witness ==
    /\ last.op = "apply_fees"
    /\ last.result = "Ok"
    /\ last.event = <<FeesApplied(OWNER, 0, 0)>>
    /\ portfolio.total_value > 0
    /\ steps = MaxSteps

(* C24: in every state reached from initialize_portfolio total_value is at *)
(* least the value of every asset of the ledger, so that the subtraction   *)
(* total_value - old_value of update_asset_value and                       *)
(* update_asset_value_with_oracle cannot underflow.                        *)
C24_TotalCoversEveryValue ==
    \A j \in 1..Len(portfolio.assets) :
        portfolio.total_value >= portfolio.assets[j].value

====
